---- MODULE Spec2Model ----
(***************************************************************************)
(* A model of service/o365graph.py: the Graph object shared by the request *)
(* handlers of a threaded Flask application (token acquisition, the        *)
(* authenticated request executor, cursor pagination, the SharePoint file  *)
(* resolution chain), the /file route and the stream_json encoder.         *)
(***************************************************************************)
EXTENDS Integers, Sequences, FiniteSets, TLC

\* ------------------------------------------------------------------ bounds
NThreads == 2
MaxCalls == 2
MaxTokens == 2
MaxPageLen == 2
MaxPages == 2
MaxPathLen == 5
MaxRecords == 3
MaxKeys == 2

\* The handler threads of the threaded server (app.run(threaded=True)).
Threads == 1..NThreads

\* ------------------------------------------------------------ plain values
\* Python's None, kept apart from every string, header and url of the model.
None == <<"None">>

\* resp.status_code == 401, the one status Graph.request reacts to
HTTP_UNAUTHORIZED == 401

\* The statuses a server answers with: success, authorization failure, other.
Statuses == {200, 401, 404}

\* The texts of a non-success response body.
ErrorTexts == {"denied", "gone"}

\* requests.Response.ok, as the code reads it: no 4xx or 5xx status
Ok(resp) == resp.status < 400

\* {"Authorization": "Bearer " + access_token} for the n-th token issued
Bearer(n) == <<"Bearer", n>>

\* self.graph_url, and the urls of the model as sequences of url pieces
graph_url == <<"graph/">>

\* "$skiptoken" in next_page: the substring test, on the url's pieces
HasSkiptoken(url) == \E i \in 1..Len(url) : url[i] = "$skiptoken"

\* The paths a caller of /entities/<path> gives, and the query arguments.
EntityPaths == {<<"users">>, <<"users?", "$skiptoken", "=x">>}
QueryArgs == {<<>>, <<"$top=5">>}

\* The next-page values a page can carry besides none: a url with a skip
\* token, and a url that pages with another parameter.
CursorUrls == {<<"graph/", "users?", "$skiptoken", "=A">>,
               <<"graph/", "users?", "$skip=2">>}

\* One HTTP response: status, error text, and the JSON fields the callers
\* read (the entity count of a page, its next-page value, a lookup's field).
Response(status, text, n, cursor, field) ==
    [status |-> status, text |-> text, n |-> n, cursor |-> cursor, field |-> field]

NoResponse == Response(0, "", 0, None, None)

\* What a server may answer to a request made from call site ctx.
Responses(ctx) ==
    {Response(s, x, 0, None, None) : s \in Statuses \ {200}, x \in ErrorTexts}
    \cup (CASE ctx = "page" ->
                 {Response(200, "", n, c, None) :
                      n \in 0..MaxPageLen, c \in CursorUrls \cup {None}}
            [] ctx = "download" ->
                 {Response(200, "", 0, None, f) : f \in {<<>>, <<"bytes">>}}
            [] OTHER ->
                 {Response(200, "", 0, None, f) : f \in {None, <<ctx>>}})

\* The entities of page k of a collection, in server order: the i-th entity of
\* page k is the pair <<k, i>>.
PageEntities(k, n) == [i \in 1..n |-> <<k, i>>]

\* ------------------------------------------------------------------- state
VARIABLES
    session,      \* Graph.session: None or the requests.Session
    auth_header,  \* Graph.auth_header: None or the Bearer header
    issued,       \* tokens the token endpoint has issued so far
    handled,      \* handler invocations started so far
    sharepoint_url, \* config.sharepoint_url: None when unset
    pc,           \* each handler thread's position in the code
    rq,           \* each thread's Graph.request call: locals and history
    pg,           \* each thread's __get_all_paged_entities generator
    fl,           \* each thread's /file handler and Graph.get_file chain
    outcome,      \* how each thread's handler ended
    sj,           \* a stream_json generator and the sequence it is given
    sleep,        \* whether config has the attribute sleep, and its number
    st,           \* the module-level code run at startup, and the environment
    gid,          \* a set_group_id call and the entity it is given
    su            \* each thread's __get_all_siteurls generator

vars == <<session, auth_header, issued, handled, sharepoint_url,
          pc, rq, pg, fl, outcome, sj, sleep, st, gid, su>>

\* The locals of one Graph.request call, with its history: the responses
\* received (sends, first), the token acquisitions made in reaction to a 401
\* (refreshes), and for the last request sent the header it carried (sentHdr)
\* and self.auth_header at that moment (sentCur).
RqInit ==
    [ctx |-> "none", url |-> None, params |-> None, hdr |-> None,
     resp |-> NoResponse, sends |-> 0, refreshes |-> 0, first |-> 0,
     phase |-> "none", sentHdr |-> None, sentCur |-> None]

\* The locals of one __get_all_paged_entities generator, with its history:
\* the pages served with success (pages), the page requests made (reqs), the
\* entities yielded (yielded) and how often the generator ended (ended).
PgInit ==
    [args |-> <<>>, next_page |-> None, page_counter |-> 0, pending |-> <<>>,
     cursor |-> None, yielded |-> <<>>, pages |-> <<>>, reqs |-> 0,
     ended |-> 0, slept |-> <<>>]

\* The locals of the /file route and of Graph.get_file, with how get_file
\* ended (got: none, returned, raised), the lookups attempted (lookups), the
\* lookup that was answered with a non-success (failed) and the download
\* requests sent (dlSends) with the headers of the last one (dlHdr).
FlInit ==
    [path |-> <<>>, site |-> None, relpath |-> None, site_id |-> None,
     drive_url |-> None, download_url |-> None, file_resp |-> None,
     got |-> "none", lookups |-> <<>>, failed |-> "none", dlSends |-> 0,
     dlHdr |-> None]

\* A stream_json generator: the records its input yields (items), after how
\* many of them the input raises (failAt, -1: never), the records taken so far
\* (taken), the locals first and row, and the chunks yielded so far (out).
SjInit ==
    [pc |-> "off", items |-> <<>>, failAt |-> -1, taken |-> 0, first |-> TRUE,
     row |-> None, out |-> <<>>]

\* config when the optional variable sleep is unset or empty (lines 33-36).
NoSleep == [has |-> FALSE, d |-> 0]

\* The names of lines 15: required_env_vars, in the order of the list.
required_env_vars ==
    <<"client_id", "client_secret", "grant_type", "resource", "entities_path",
      "next_page", "token_url">>

RequiredNames == {required_env_vars[i] : i \in 1..Len(required_env_vars)}

\* The module-level code: its position (pc), the environment (env), the loop
\* of lines 27-31 (i, missing_env_vars, the attributes set on config), the
\* exit status (-1: the process has not exited), the names the error report
\* lists, and whether data_access_layer and the server exist.
StServing ==
    [pc |-> "serving", env |-> [n \in RequiredNames |-> <<"v">>], i |-> 7,
     missing_env_vars |-> <<>>, config |-> [n \in RequiredNames |-> <<"v">>],
     exit |-> -1, report |-> <<>>, graph |-> TRUE, serving |-> TRUE]

\* A set_group_id call: the entity given, and what the call gave back.
GidOff == [pc |-> "off", entity |-> <<>>, result |-> ""]

\* The locals of one __get_all_siteurls generator: the posted entities, the
\* index of the entity at hand, and the site descriptors yielded (by _id).
SuInit == [posted |-> <<>>, i |-> 0, yielded |-> <<>>]

\* How a handler ended: kind is none, returned or raised; exc the exception;
\* http the status the route answered with (0: the stream of /entities).
OutcomeInit ==
    [kind |-> "none", exc |-> "", status |-> 0, text |-> "", http |-> 0,
     tokenBody |-> ""]

GraphInit ==
    /\ session = None
    /\ auth_header = None
    /\ issued = 0
    /\ handled = 0
    /\ sharepoint_url \in {None, <<"https://", "sp.example", "/">>}
    /\ pc = [t \in Threads |-> "idle"]
    /\ rq = [t \in Threads |-> RqInit]
    /\ pg = [t \in Threads |-> PgInit]
    /\ fl = [t \in Threads |-> FlInit]
    /\ outcome = [t \in Threads |-> OutcomeInit]
    /\ su = [t \in Threads |-> SuInit]

\* The server as it is once the module is loaded with its settings in place.
Loaded ==
    /\ st = StServing
    /\ gid = GidOff

Init ==
    /\ GraphInit
    /\ Loaded
    /\ sleep = NoSleep
    /\ sj = SjInit

\* An exception leaves the handler: nothing in this program catches one.
Raised(exc, status, text) ==
    [OutcomeInit EXCEPT !.kind = "raised", !.exc = exc, !.status = status,
                        !.text = text, !.http = 500]

Returned(http) ==
    [OutcomeInit EXCEPT !.kind = "returned", !.http = http]

\* The bare raise of line 86: with no exception being handled Python raises
\* RuntimeError("No active exception to reraise"); resp.content went to the
\* log only (tokenBody keeps it for the properties).
TokenRefused(body) ==
    [Raised("RuntimeError", 0, "") EXCEPT !.tokenBody = body]

\* ------------------------------------------------ set_group_id (58-65)
\* str.split(sep): the pieces between the separators, empty ones included
RECURSIVE SplitOn(_, _)
SplitOn(sep, s) ==
    IF s = <<>> THEN << <<>> >>
    ELSE IF Head(s) = sep THEN << <<>> >> \o SplitOn(sep, Tail(s))
    ELSE LET r == SplitOn(sep, Tail(s)) IN << <<Head(s)>> \o Head(r) >> \o Tail(r)

\* line 60: k.split(":")[-1] == "id"
IdKey(k) == LET parts == SplitOn(":", k) IN parts[Len(parts)] = <<"i", "d">>

\* groupid before line 61 has assigned it: reading it at line 65 raises
\* UnboundLocalError.
Unbound == "UnboundLocalError"

\* lines 59-64: the loop over entity.items() in key order, from groupid on
RECURSIVE GroupIdLoop(_, _)
GroupIdLoop(items, groupid) ==
    IF items = <<>> THEN groupid
    ELSE GroupIdLoop(Tail(items),
                     IF IdKey(Head(items)[1]) THEN Head(items)[2] ELSE groupid)

\* lines 58-65: an entity is the sequence of its <<key, value>> items
set_group_id(entity) == GroupIdLoop(entity, Unbound)

\* ------------------------------------------------------- Graph.get_token
\* The token endpoint's answers: a success with an access_token, a success
\* whose JSON has no access_token, a non-success.
TokenAnswers == {"token", "no_access_token", "refused"}

\* get_token for thread t, returning to position next: on a non-success the
\* bare raise ends the handler (RuntimeError: no active exception); a body
\* with no access_token fails in "Bearer " + None (TypeError); otherwise
\* self.auth_header is replaced.
GetToken(t, next) ==
    \E a \in TokenAnswers :
        /\ a = "token" => issued < MaxTokens
        /\ IF a = "token"
           THEN /\ issued' = issued + 1
                /\ auth_header' = Bearer(issued + 1)
                /\ pc' = [pc EXCEPT ![t] = next]
                /\ outcome' = outcome
           ELSE /\ UNCHANGED <<issued, auth_header>>
                /\ pc' = [pc EXCEPT ![t] = "done"]
                /\ \E body \in ErrorTexts :
                      outcome' = [outcome EXCEPT ![t] =
                          IF a = "refused" THEN TokenRefused(body)
                          ELSE Raised("TypeError", 0, "")]

\* --------------------------------------------------------- Graph.request
\* Where a Graph.request call returns to, by call site.
ReturnTo(ctx) ==
    CASE ctx = "page" -> "p120"
      [] ctx = "site" -> "f163"
      [] ctx = "drive" -> "f176"
      [] ctx = "item" -> "f192"
      [] ctx = "siteurl" -> "u141"

\* A call of self.request(method, url, **kwargs) from call site ctx.
CallRequest(t, ctx, url, params) ==
    /\ rq' = [rq EXCEPT ![t] = [RqInit EXCEPT !.ctx = ctx, !.url = url,
                                              !.params = params,
                                              !.phase = "running"]]
    /\ pc' = [pc EXCEPT ![t] = "r91"]

\* line 91: if not self.session
ReqCheckSession(t) ==
    /\ pc[t] = "r91"
    /\ pc' = [pc EXCEPT ![t] = IF session = None THEN "r92" ELSE "r95"]
    /\ UNCHANGED <<session, auth_header, issued, handled, sharepoint_url,
                   rq, pg, fl, outcome>>
    /\ UNCHANGED <<sj, sleep, st, gid, su>>

\* line 92: self.session = requests.Session()
ReqNewSession(t) ==
    /\ pc[t] = "r92"
    /\ session' = <<"Session">>
    /\ pc' = [pc EXCEPT ![t] = "r93"]
    /\ UNCHANGED <<auth_header, issued, handled, sharepoint_url,
                   rq, pg, fl, outcome>>
    /\ UNCHANGED <<sj, sleep, st, gid, su>>

\* line 93: self.get_token(), the lazy initial acquisition
ReqInitToken(t) ==
    /\ pc[t] = "r93"
    /\ GetToken(t, "r95")
    /\ rq' = [rq EXCEPT ![t].phase = IF pc'[t] = "done" THEN "raised" ELSE @]
    /\ UNCHANGED <<session, handled, sharepoint_url, pg, fl>>
    /\ UNCHANGED <<sj, sleep, st, gid, su>>

\* line 95: req = requests.Request(method, url, headers=self.auth_header, ...)
ReqBuild(t) ==
    /\ pc[t] = "r95"
    /\ rq' = [rq EXCEPT ![t].hdr = auth_header]
    /\ pc' = [pc EXCEPT ![t] = "r97"]
    /\ UNCHANGED <<session, auth_header, issued, handled, sharepoint_url,
                   pg, fl, outcome>>
    /\ UNCHANGED <<sj, sleep, st, gid, su>>

\* The request as it goes out: req.prepare() takes the headers of req.
PreparedHeaders(t) == rq[t].hdr

\* A call that asks for a new token after every non-success response.
AfterSendAnyError(resp) == IF Ok(resp) THEN "ret" ELSE "r99"

\* The pieces of a url that hold the "?" of a query string.
QueryPieces == {"users?"}

\* req.prepare(): params are encoded and appended to the url's query string,
\* after "?" or, when the url has a query already, after "&".
PreparedUrl(url, params) ==
    IF params = None \/ params = <<>> THEN url
    ELSE IF \E i \in 1..Len(url) : url[i] \in QueryPieces
         THEN url \o <<"&">> \o params
         ELSE url \o <<"?">> \o params

\* Where the call goes after the first response: resp.status_code == 401
AfterSend(resp) == IF resp.status = HTTP_UNAUTHORIZED THEN "r99" ELSE "ret"

\* A retry loop: the call asks for a token again whenever the retry is a 401.
AfterResendLoop(resp) == IF resp.status = HTTP_UNAUTHORIZED THEN "r99" ELSE "ret"

\* Where the call goes after the response to the retry: line 102, whatever it is
AfterResend(resp) == "ret"

\* session.send(req.prepare()) answered by resp, then on to position next
Sent(t, resp, next) ==
    /\ rq' = [rq EXCEPT ![t].resp = resp,
                        ![t].sends = @ + 1,
                        ![t].first = IF rq[t].sends = 0 THEN resp.status ELSE @,
                        ![t].sentHdr = PreparedHeaders(t),
                        ![t].sentCur = auth_header,
                        ![t].phase = IF next = "ret" THEN "returned" ELSE @]
    /\ pc' = [pc EXCEPT ![t] = IF next = "ret" THEN ReturnTo(rq[t].ctx) ELSE next]

\* lines 97-98: resp = self.session.send(req.prepare())
ReqSend(t) ==
    /\ pc[t] = "r97"
    /\ \E resp \in Responses(rq[t].ctx) : Sent(t, resp, AfterSend(resp))
    /\ UNCHANGED <<session, auth_header, issued, handled, sharepoint_url,
                   pg, fl, outcome>>
    /\ UNCHANGED <<sj, sleep, st, gid, su>>

\* line 99: self.get_token(), in reaction to the 401
ReqRefresh(t) ==
    /\ pc[t] = "r99"
    /\ GetToken(t, "r100")
    /\ rq' = [rq EXCEPT ![t].refreshes = @ + 1,
                        ![t].phase = IF pc'[t] = "done" THEN "raised" ELSE @]
    /\ UNCHANGED <<session, handled, sharepoint_url, pg, fl>>
    /\ UNCHANGED <<sj, sleep, st, gid, su>>

\* line 100: resp = self.session.send(req.prepare()), the retry
ReqResend(t) ==
    /\ pc[t] = "r100"
    /\ \E resp \in Responses(rq[t].ctx) : Sent(t, resp, AfterResend(resp))
    /\ UNCHANGED <<session, auth_header, issued, handled, sharepoint_url,
                   pg, fl, outcome>>
    /\ UNCHANGED <<sj, sleep, st, gid, su>>

\* ------------------------------------------ Graph.__get_all_paged_entities
\* The route /entities/<path>: the generator is made and the response streams
\* it; lines 106-108 set the first page's url.
StartEntities(t) ==
    /\ pc[t] = "idle"
    /\ handled < MaxCalls
    /\ handled' = handled + 1
    /\ \E path \in EntityPaths, args \in QueryArgs :
          pg' = [pg EXCEPT ![t] = [PgInit EXCEPT !.args = args,
                                                 !.next_page = graph_url \o path,
                                                 !.page_counter = 1]]
    /\ pc' = [pc EXCEPT ![t] = "p109"]
    /\ UNCHANGED <<session, auth_header, issued, sharepoint_url, rq, fl, outcome>>
    /\ UNCHANGED <<sj, sleep, st, gid, su>>

\* lines 115-118: the query arguments go with a url that holds no "$skiptoken"
PageParams(url, args) == IF ~HasSkiptoken(url) THEN args ELSE None

\* time.sleep takes seconds: the milliseconds in one of them.
MillisPerSecond == 1000

\* line 112: sleep(float(config.sleep)) suspends the thread for config.sleep
\* seconds; the length of the suspension, in milliseconds.
SleepMillis(d) == MillisPerSecond * d

\* lines 110-112: the suspensions made so far, with the one before this page
\* when config has the attribute sleep.
Slept(slept) == IF sleep.has THEN Append(slept, SleepMillis(sleep.d)) ELSE slept

\* lines 109-118: the loop test, the sleep, then the request for the page at
\* next_page; line 134 when next_page is None: the generator ends.
PagedLoop(t) ==
    /\ pc[t] = "p109"
    /\ IF pg[t].next_page # None
       THEN /\ pg[t].reqs < MaxPages
            /\ CallRequest(t, "page", pg[t].next_page,
                           PageParams(pg[t].next_page, pg[t].args))
            /\ pg' = [pg EXCEPT ![t].reqs = @ + 1,
                                ![t].slept = Slept(@)]
            /\ outcome' = outcome
       ELSE /\ pg' = [pg EXCEPT ![t].ended = @ + 1]
            /\ pc' = [pc EXCEPT ![t] = "done"]
            /\ outcome' = [outcome EXCEPT ![t] = Returned(0)]
            /\ rq' = rq
    /\ UNCHANGED <<session, auth_header, issued, handled, sharepoint_url, fl>>
    /\ UNCHANGED <<sj, sleep, st, gid, su>>

\* A page check that lets client errors through.
PageFailsOnServerError(resp) == resp.status >= 500

\* line 120: if not req.ok
PageFails(resp) == ~Ok(resp)

\* lines 121-123: the AssertionError of a page answered with a non-success
FetchError(resp) == Raised("AssertionError", resp.status, resp.text)

\* lines 120-125: a non-success raises; otherwise the body is parsed and its
\* entity collection is what the loop of line 125 goes through.
PagedResponse(t) ==
    /\ pc[t] = "p120"
    /\ LET resp == rq[t].resp IN
       IF PageFails(resp)
       THEN /\ outcome' = [outcome EXCEPT ![t] = FetchError(resp)]
            /\ pc' = [pc EXCEPT ![t] = "done"]
            /\ pg' = pg
       ELSE /\ pg' = [pg EXCEPT
                  ![t].pending = PageEntities(pg[t].reqs, resp.n),
                  ![t].cursor = resp.cursor,
                  ![t].pages = Append(@, [entities |-> PageEntities(pg[t].reqs, resp.n),
                                          cursor |-> resp.cursor])]
            /\ pc' = [pc EXCEPT ![t] = "p125"]
            /\ outcome' = outcome
    /\ UNCHANGED <<session, auth_header, issued, handled, sharepoint_url, rq, fl>>
    /\ UNCHANGED <<sj, sleep, st, gid, su>>

\* A generator that hands its entities over in the wrong order.
YieldFront(yielded, e) == <<e>> \o yielded

\* What the generator has yielded once it yields entity e
Yield(yielded, e) == Append(yielded, e)

\* lines 125-127: yield(entity), one entity per pull of the consumer
PagedYield(t) ==
    /\ pc[t] = "p125"
    /\ pg[t].pending # <<>>
    /\ pg' = [pg EXCEPT ![t].yielded = Yield(@, Head(pg[t].pending)),
                        ![t].pending = Tail(@)]
    /\ UNCHANGED <<session, auth_header, issued, handled, sharepoint_url,
                   pc, rq, fl, outcome>>
    /\ UNCHANGED <<sj, sleep, st, gid, su>>

\* lines 129-133: the url of the next page, None after a page with no cursor
NextPage(cursor) == IF cursor # None THEN cursor ELSE None

\* lines 129-133, after the last entity of the page
PagedAdvance(t) ==
    /\ pc[t] = "p125"
    /\ pg[t].pending = <<>>
    /\ pg' = [pg EXCEPT ![t].next_page = NextPage(pg[t].cursor),
                        ![t].page_counter = IF pg[t].cursor # None THEN @ + 1 ELSE @]
    /\ pc' = [pc EXCEPT ![t] = "p109"]
    /\ UNCHANGED <<session, auth_header, issued, handled, sharepoint_url,
                   rq, fl, outcome>>
    /\ UNCHANGED <<sj, sleep, st, gid, su>>

\* ------------------------------------------------- the route /file/<path>
\* The characters of a path, and the paths the route is called with: the
\* path converter matches a non-empty path that does not start with "/".
PathChars == {"a", "b", "/"}
FilePaths ==
    {p \in UNION {[1..k -> PathChars] : k \in 1..MaxPathLen} : p[1] # "/"}

\* str.split("/"): the pieces between the separators, empty ones included
RECURSIVE Split(_)
Split(s) ==
    IF s = <<>> THEN << <<>> >>
    ELSE IF Head(s) = "/" THEN << <<>> >> \o Split(Tail(s))
    ELSE LET r == Split(Tail(s)) IN << <<Head(s)>> \o Head(r) >> \o Tail(r)

\* "/".join(parts)
RECURSIVE Join(_)
Join(parts) ==
    IF parts = <<>> THEN <<>>
    ELSE IF Len(parts) = 1 THEN parts[1]
    ELSE parts[1] \o <<"/">> \o Join(Tail(parts))

\* urlparse(sharepoint_url).netloc: the piece after the scheme
Netloc(url) == IF Len(url) >= 2 THEN url[2] ELSE ""

\* line 285: site = sharepoint_url + ":/" + "/".join(url_parts[:2])
SitePart(url_parts) == Join(SubSeq(url_parts, 1, 2))
SiteOf(netloc, url_parts) == <<netloc, ":/">> \o SitePart(url_parts)

\* line 286: path = "/".join(url_parts[2:])
RelativePath(url_parts) == Join(SubSeq(url_parts, 3, Len(url_parts)))

\* A length check that is off by one.
TooShortByOne(url_parts) == Len(url_parts) < 2

\* line 281: len(url_parts) < 3
TooShort(url_parts) == Len(url_parts) < 3

\* if file_resp: None and b"" are both false
Truthy(v) == v # None /\ v # <<>>

\* lines 270-286 of the route, then Graph.get_file down to the site lookup of
\* _get_sharepoint_site_id (lines 160-162).
StartFile(t) ==
    /\ pc[t] = "idle"
    /\ handled < MaxCalls
    /\ handled' = handled + 1
    /\ \E path \in FilePaths :
        LET url_parts == Split(path) IN
        IF sharepoint_url = None
        THEN /\ fl' = [fl EXCEPT ![t] = [FlInit EXCEPT !.path = path]]
             /\ outcome' = [outcome EXCEPT ![t] = Returned(500)]
             /\ pc' = [pc EXCEPT ![t] = "done"]
             /\ rq' = rq
        ELSE IF TooShort(url_parts)
        THEN /\ fl' = [fl EXCEPT ![t] = [FlInit EXCEPT !.path = path]]
             /\ outcome' = [outcome EXCEPT ![t] = Returned(400)]
             /\ pc' = [pc EXCEPT ![t] = "done"]
             /\ rq' = rq
        ELSE LET site == SiteOf(Netloc(sharepoint_url), url_parts) IN
             /\ fl' = [fl EXCEPT ![t] = [FlInit EXCEPT
                        !.path = path, !.site = site,
                        !.relpath = RelativePath(url_parts),
                        !.lookups = <<"site">>]]
             /\ CallRequest(t, "site", graph_url \o <<"sites/">> \o site, None)
             /\ outcome' = outcome
    /\ UNCHANGED <<session, auth_header, issued, sharepoint_url, pg>>
    /\ UNCHANGED <<sj, sleep, st, gid, su>>

\* lines 163-175 and 182-183, 196-197: the site id, then the drive lookup of
\* _get_site_documents_drive_url; with no site id both callers return None.
FileSiteReturn(t) ==
    /\ pc[t] = "f163"
    /\ LET resp == rq[t].resp
           site_id == IF Ok(resp) THEN resp.field ELSE None
       IN IF site_id # None
          THEN /\ fl' = [fl EXCEPT ![t].site_id = site_id,
                                   ![t].lookups = Append(@, "drive")]
               /\ CallRequest(t, "drive",
                              graph_url \o <<"/sites/">> \o site_id \o <<"/drive">>,
                              None)
          ELSE /\ fl' = [fl EXCEPT ![t].failed = IF Ok(resp) THEN @ ELSE "site"]
               /\ pc' = [pc EXCEPT ![t] = "f204"]
               /\ rq' = rq
    /\ UNCHANGED <<session, auth_header, issued, handled, sharepoint_url,
                   pg, outcome>>
    /\ UNCHANGED <<sj, sleep, st, gid, su>>

\* lines 176-181 and 188-191: the drive url, then the file details lookup of
\* _get_file_download_url; a drive with no id fails in url + "s/" + None.
FileDriveReturn(t) ==
    /\ pc[t] = "f176"
    /\ LET resp == rq[t].resp IN
       IF ~Ok(resp)
       THEN /\ fl' = [fl EXCEPT ![t].failed = "drive"]
            /\ pc' = [pc EXCEPT ![t] = "f204"]
            /\ UNCHANGED <<rq, outcome>>
       ELSE IF resp.field = None
       THEN /\ fl' = [fl EXCEPT ![t].got = "raised"]
            /\ outcome' = [outcome EXCEPT ![t] = Raised("TypeError", 0, "")]
            /\ pc' = [pc EXCEPT ![t] = "done"]
            /\ rq' = rq
       ELSE LET drive_url == rq[t].url \o <<"s/">> \o resp.field \o <<"/root:/">> IN
            /\ fl' = [fl EXCEPT ![t].drive_url = drive_url,
                                ![t].lookups = Append(@, "item")]
            /\ CallRequest(t, "item", drive_url \o fl[t].relpath, None)
            /\ outcome' = outcome
    /\ UNCHANGED <<session, auth_header, issued, handled, sharepoint_url, pg>>
    /\ UNCHANGED <<sj, sleep, st, gid, su>>

\* lines 192-195: the download url of the file details, None on a non-success
FileItemReturn(t) ==
    /\ pc[t] = "f192"
    /\ LET resp == rq[t].resp IN
       fl' = [fl EXCEPT ![t].download_url = IF Ok(resp) THEN resp.field ELSE None,
                        ![t].failed = IF Ok(resp) THEN @ ELSE "item"]
    /\ pc' = [pc EXCEPT ![t] = "f204"]
    /\ UNCHANGED <<session, auth_header, issued, handled, sharepoint_url,
                   rq, pg, outcome>>
    /\ UNCHANGED <<sj, sleep, st, gid, su>>

\* lines 289-292 of the route: the bytes, or abort(500)
RouteFileStatus(file_resp) == IF Truthy(file_resp) THEN 200 ELSE 500

\* A download that is given the headers of the Graph object.
DownloadHeadersOfGraph(t) == auth_header

\* line 204: requests.get(download_url) carries no headers of the Graph object
DownloadHeaders(t) == None

\* lines 204-209, then lines 289-292 of the route: requests.get(None) raises
\* MissingSchema before anything is sent; otherwise one plain GET.
FileDownload(t) ==
    /\ pc[t] = "f204"
    /\ IF fl[t].download_url = None
       THEN /\ fl' = [fl EXCEPT ![t].got = "raised"]
            /\ outcome' = [outcome EXCEPT ![t] = Raised("MissingSchema", 0, "")]
       ELSE \E resp \in Responses("download") :
              LET file_resp == IF Ok(resp) THEN resp.field ELSE None IN
              /\ fl' = [fl EXCEPT ![t].got = "returned",
                                  ![t].file_resp = file_resp,
                                  ![t].dlSends = @ + 1,
                                  ![t].dlHdr = DownloadHeaders(t)]
              /\ outcome' = [outcome EXCEPT ![t] = Returned(RouteFileStatus(file_resp))]
    /\ pc' = [pc EXCEPT ![t] = "done"]
    /\ UNCHANGED <<session, auth_header, issued, handled, sharepoint_url, rq, pg>>
    /\ UNCHANGED <<sj, sleep, st, gid, su>>

\* ------------------------------------- the route /siteurl (136-147, 258-266)
\* The batches posted to /siteurl: entities with an id key, one without.
IdItem == << <<"i", "d">>, "g1" >>
NsIdItem == << <<"n", ":", "i", "d">>, "g2" >>
NameItem == << <<"n">>, "x" >>
PostedBatches ==
    {<< >>,
     << <<IdItem>> >>,
     << <<NameItem>> >>,
     << <<NameItem, NsIdItem>>, <<IdItem>> >>}

\* lines 260-261: the generator over the posted entities is made
StartSiteurl(t) ==
    /\ pc[t] = "idle"
    /\ handled < MaxCalls
    /\ handled' = handled + 1
    /\ \E posted \in PostedBatches :
          su' = [su EXCEPT ![t] = [SuInit EXCEPT !.posted = posted, !.i = 1]]
    /\ pc' = [pc EXCEPT ![t] = "u138"]
    /\ UNCHANGED <<session, auth_header, issued, sharepoint_url, rq, pg, fl, outcome>>
    /\ UNCHANGED <<sj, sleep, st, gid>>

\* lines 138-140: the next entity, its group id, and the request for its
\* root site; the generator ends after the last entity.
SiteurlLoop(t) ==
    /\ pc[t] = "u138"
    /\ IF su[t].i > Len(su[t].posted)
       THEN /\ pc' = [pc EXCEPT ![t] = "done"]
            /\ outcome' = [outcome EXCEPT ![t] = Returned(0)]
            /\ rq' = rq
       ELSE LET groupid == set_group_id(su[t].posted[su[t].i]) IN
            IF groupid = Unbound
            THEN /\ pc' = [pc EXCEPT ![t] = "done"]
                 /\ outcome' = [outcome EXCEPT ![t] = Raised(Unbound, 0, "")]
                 /\ rq' = rq
            ELSE /\ CallRequest(t, "siteurl",
                                graph_url \o <<"groups/", groupid, "/sites/root">>,
                                None)
                 /\ outcome' = outcome
    /\ UNCHANGED <<session, auth_header, issued, handled, sharepoint_url, pg, fl>>
    /\ UNCHANGED <<sj, sleep, st, gid, su>>

\* lines 141-147: a success is yielded with the group id as its _id
SiteurlReturn(t) ==
    /\ pc[t] = "u141"
    /\ su' = [su EXCEPT
                ![t].yielded = IF Ok(rq[t].resp)
                               THEN Append(@, set_group_id(su[t].posted[su[t].i]))
                               ELSE @,
                ![t].i = @ + 1]
    /\ pc' = [pc EXCEPT ![t] = "u138"]
    /\ UNCHANGED <<session, auth_header, issued, handled, sharepoint_url,
                   rq, pg, fl, outcome>>
    /\ UNCHANGED <<sj, sleep, st, gid>>

\* The handler is over: the thread takes the next inbound request.
Finish(t) ==
    /\ pc[t] = "done"
    /\ pc' = [pc EXCEPT ![t] = "idle"]
    /\ rq' = [rq EXCEPT ![t] = RqInit]
    /\ pg' = [pg EXCEPT ![t] = PgInit]
    /\ fl' = [fl EXCEPT ![t] = FlInit]
    /\ outcome' = [outcome EXCEPT ![t] = OutcomeInit]
    /\ su' = [su EXCEPT ![t] = SuInit]
    /\ UNCHANGED <<session, auth_header, issued, handled, sharepoint_url>>
    /\ UNCHANGED <<sj, sleep, st, gid>>

\* The handler threads that run in Spec: one request is handled at a time.
Handlers == {1}

Next ==
    \E t \in Handlers :
        \/ StartEntities(t)
        \/ StartFile(t)
        \/ FileSiteReturn(t)
        \/ FileDriveReturn(t)
        \/ FileItemReturn(t)
        \/ FileDownload(t)
        \/ PagedLoop(t)
        \/ PagedResponse(t)
        \/ PagedYield(t)
        \/ PagedAdvance(t)
        \/ StartSiteurl(t)
        \/ SiteurlLoop(t)
        \/ SiteurlReturn(t)
        \/ ReqCheckSession(t)
        \/ ReqNewSession(t)
        \/ ReqInitToken(t)
        \/ ReqBuild(t)
        \/ ReqSend(t)
        \/ ReqRefresh(t)
        \/ ReqResend(t)
        \/ Finish(t)

Spec == Init /\ [][Next]_vars

\* The steps of a thread that handles /siteurl requests.
SiteurlStep(t) ==
    \/ StartSiteurl(t)
    \/ SiteurlLoop(t)
    \/ SiteurlReturn(t)
    \/ ReqCheckSession(t)
    \/ ReqNewSession(t)
    \/ ReqInitToken(t)
    \/ ReqBuild(t)
    \/ ReqSend(t)
    \/ ReqRefresh(t)
    \/ ReqResend(t)
    \/ Finish(t)

ThreadsNext == \E t \in Threads : SiteurlStep(t)

\* app.run(threaded=True): the handler threads run interleaved, line by line,
\* on the one Graph object.
SpecThreads == Init /\ [][ThreadsNext]_vars

\* The keys of an entity, and the group ids that are their values.
EntityKeys ==
    {<<"i", "d">>, <<"n", ":", "i", "d">>, <<"i", "d", ":", "n">>,
     <<"n", "i", "d">>, <<"n">>}
GroupIds == {"g1", "g2"}

\* The entities of at most MaxKeys items, no key twice.
Entities ==
    {e \in UNION {[1..k -> EntityKeys \X GroupIds] : k \in 0..MaxKeys} :
        \A i, j \in 1..Len(e) : e[i][1] = e[j][1] => i = j}

GroupIdInit ==
    /\ GraphInit
    /\ st = StServing
    /\ sleep = NoSleep
    /\ sj = SjInit
    /\ \E e \in Entities : gid = [pc |-> "call", entity |-> e, result |-> ""]

\* One call of set_group_id: its return value, or the UnboundLocalError.
SetGroupIdCall ==
    /\ gid.pc = "call"
    /\ LET groupid == set_group_id(gid.entity) IN
       gid' = [gid EXCEPT !.result = groupid,
                          !.pc = IF groupid = Unbound THEN "raised" ELSE "returned"]
    /\ UNCHANGED <<session, auth_header, issued, handled, sharepoint_url,
                   pc, rq, pg, fl, outcome, sj, sleep, st, su>>

\* set_group_id applied to every entity of the bounded set.
SpecGroupId == GroupIdInit /\ [][SetGroupIdCall]_vars

\* The delays a deployment sets in the variable sleep, as numbers.
Delays == {1, 2}

\* The server with the optional variable sleep unset or set to a delay.
SleepInit ==
    /\ GraphInit
    /\ Loaded
    /\ sleep \in {NoSleep} \cup {[has |-> TRUE, d |-> d] : d \in Delays}
    /\ sj = SjInit

SpecSleep == SleepInit /\ [][Next]_vars

\* lines 109-118 past the pages whose content the model keeps: the loop
\* requests the page at next_page as before.
PagedBeyondRequest(t) ==
    /\ pc[t] = "p109"
    /\ pg[t].next_page # None
    /\ pg[t].reqs = MaxPages
    /\ pc' = [pc EXCEPT ![t] = "p116"]
    /\ UNCHANGED <<session, auth_header, issued, handled, sharepoint_url,
                   rq, pg, fl, outcome>>
    /\ UNCHANGED <<sj, sleep, st, gid, su>>

\* lines 120-133 for such a page: a non-success raises, a page without a
\* next-page value ends the generator, and a page with one is followed.
PagedBeyondResponse(t) ==
    /\ pc[t] = "p116"
    /\ \E resp \in Responses("page") :
          IF PageFails(resp)
          THEN /\ outcome' = [outcome EXCEPT ![t] = FetchError(resp)]
               /\ pc' = [pc EXCEPT ![t] = "done"]
               /\ pg' = pg
          ELSE IF NextPage(resp.cursor) = None
          THEN /\ outcome' = [outcome EXCEPT ![t] = Returned(0)]
               /\ pc' = [pc EXCEPT ![t] = "done"]
               /\ pg' = [pg EXCEPT ![t].ended = @ + 1]
          ELSE /\ outcome' = outcome
               /\ pc' = [pc EXCEPT ![t] = "p109"]
               /\ pg' = [pg EXCEPT ![t].next_page = NextPage(resp.cursor)]
    /\ UNCHANGED <<session, auth_header, issued, handled, sharepoint_url, rq, fl>>
    /\ UNCHANGED <<sj, sleep, st, gid, su>>

\* The handlers with paging that goes on for as long as the server gives
\* next-page values.
LiveNext ==
    \/ Next
    \/ \E t \in Handlers : PagedBeyondRequest(t) \/ PagedBeyondResponse(t)

\* The handler thread keeps running and the consumer keeps pulling: the
\* program's steps are weakly fair. What the server answers is its choice.
SpecLive == Init /\ [][LiveNext]_vars /\ WF_vars(LiveNext)

\* ------------------------------------------------------------ stream_json
\* The records given to stream_json: JSON values, here objects with at most
\* one key, strings and null.
Records ==
    {<<"dict">>, <<"dict", "id", <<"str", "a">> >>, <<"dict", "id", <<"null">> >>}

\* json.dumps(row): the text of a JSON value
RECURSIVE Dumps(_)
Dumps(v) ==
    CASE v[1] = "null" -> "null"
      [] v[1] = "str" -> "\"" \o v[2] \o "\""
      [] v[1] = "dict" ->
           IF Len(v) = 1 THEN "{}"
           ELSE "{\"" \o v[2] \o "\": " \o Dumps(v[3]) \o "}"

\* The inputs of a stream_json call: a finite sequence of records, and whether
\* and where the sequence raises.
RecordSeqs == UNION {[1..n -> Records] : n \in 0..MaxRecords}

StreamInit ==
    /\ GraphInit
    /\ \E items \in RecordSeqs, k \in -1..MaxRecords :
          /\ k <= Len(items)
          /\ sj = [SjInit EXCEPT !.pc = "s218", !.items = items, !.failAt = k]
    /\ Loaded
    /\ sleep = NoSleep

\* What stream_json has yielded once it yields chunk
Emit(out, chunk) == Append(out, chunk)

\* lines 217-218: first = True; yield '['
StreamOpen ==
    /\ sj.pc = "s218"
    /\ sj' = [sj EXCEPT !.out = Emit(@, "["), !.pc = "s219"]
    /\ UNCHANGED <<session, auth_header, issued, handled, sharepoint_url,
                   pc, rq, pg, fl, outcome, sleep, st, gid, su>>

\* A separator that is yielded before the first row too.
AfterPullAlwaysComma(first) == "s221"

\* lines 220-223: the separator is yielded before every row but the first
AfterPull(first) == IF ~first THEN "s221" ELSE "s224"

\* An input error that is taken for the end of the input.
InputRaisedAsEnd(s) == [s EXCEPT !.pc = "s225"]

\* line 219: an exception of the input is not caught: it ends stream_json
InputRaised(s) == [s EXCEPT !.pc = "raised"]

\* lines 219-223: the next row of the input; the input's exception leaves
\* stream_json as it is, its end leaves the loop.
StreamPull ==
    /\ sj.pc = "s219"
    /\ sj' = IF sj.taken = sj.failAt
             THEN InputRaised(sj)
             ELSE IF sj.taken = Len(sj.items)
             THEN [sj EXCEPT !.pc = "s225"]
             ELSE [sj EXCEPT !.row = sj.items[sj.taken + 1],
                             !.taken = @ + 1,
                             !.first = FALSE,
                             !.pc = AfterPull(sj.first)]
    /\ UNCHANGED <<session, auth_header, issued, handled, sharepoint_url,
                   pc, rq, pg, fl, outcome, sleep, st, gid, su>>

\* line 221: yield ','
StreamComma ==
    /\ sj.pc = "s221"
    /\ sj' = [sj EXCEPT !.out = Emit(@, ","), !.pc = "s224"]
    /\ UNCHANGED <<session, auth_header, issued, handled, sharepoint_url,
                   pc, rq, pg, fl, outcome, sleep, st, gid, su>>

\* line 224: yield json.dumps(row)
StreamRow ==
    /\ sj.pc = "s224"
    /\ sj' = [sj EXCEPT !.out = Emit(@, Dumps(sj.row)), !.pc = "s219"]
    /\ UNCHANGED <<session, auth_header, issued, handled, sharepoint_url,
                   pc, rq, pg, fl, outcome, sleep, st, gid, su>>

\* line 225: yield ']'
StreamClose ==
    /\ sj.pc = "s225"
    /\ sj' = [sj EXCEPT !.out = Emit(@, "]"), !.pc = "done"]
    /\ UNCHANGED <<session, auth_header, issued, handled, sharepoint_url,
                   pc, rq, pg, fl, outcome, sleep, st, gid, su>>

StreamNext ==
    \/ StreamOpen
    \/ StreamPull
    \/ StreamComma
    \/ StreamRow
    \/ StreamClose

\* stream_json applied to every input of RecordSeqs.
SpecStream == StreamInit /\ [][StreamNext]_vars

\* ----------------------------------------------- startup (lines 15-55, 213)
\* os.getenv: a variable is unset (None), empty, or holds a value.
EnvValues == {None, <<>>, <<"v">>}

\* Every environment of the required variables.
StartupInit ==
    /\ GraphInit
    /\ sleep = NoSleep
    /\ sj = SjInit
    /\ gid = GidOff
    /\ \E env \in [RequiredNames -> EnvValues] :
          st = [pc |-> "load", env |-> env, i |-> 0, missing_env_vars |-> <<>>,
                config |-> [n \in RequiredNames |-> None],
                exit |-> -1, report |-> <<>>, graph |-> FALSE, serving |-> FALSE]

StartupUnchanged ==
    UNCHANGED <<session, auth_header, issued, handled, sharepoint_url,
                pc, rq, pg, fl, outcome, sj, sleep, gid, su>>

\* A test that takes only an unset variable for missing.
NotValueUnsetOnly(value) == value = None

\* line 29: if not value: None and "" are both false
NotValue(value) == value = None \/ value = <<>>

\* lines 27-31: one turn of the loop over required_env_vars
LoadRequired ==
    /\ st.pc = "load"
    /\ st.i < Len(required_env_vars)
    /\ LET env_var == required_env_vars[st.i + 1]
           value == st.env[env_var]
       IN st' = [st EXCEPT
                   !.i = @ + 1,
                   !.missing_env_vars = IF NotValue(value) THEN Append(@, env_var) ELSE @,
                   !.config = [@ EXCEPT ![env_var] = value]]
    /\ StartupUnchanged

\* lines 33-50: the optional variables and the logger, which end no process
SetupLogging ==
    /\ st.pc = "load"
    /\ st.i = Len(required_env_vars)
    /\ st' = [st EXCEPT !.pc = "check"]
    /\ StartupUnchanged

\* lines 53-55: the one error report and sys.exit(1), or on to the definitions
CheckMissing ==
    /\ st.pc = "check"
    /\ st' = IF Len(st.missing_env_vars) # 0
             THEN [st EXCEPT !.report = st.missing_env_vars, !.exit = 1,
                             !.pc = "exited"]
             ELSE [st EXCEPT !.pc = "define"]
    /\ StartupUnchanged

\* line 213: data_access_layer = Graph()
CreateGraph ==
    /\ st.pc = "define"
    /\ st' = [st EXCEPT !.graph = TRUE, !.pc = "run"]
    /\ StartupUnchanged

\* lines 242-296: the routes are registered and app.run serves them
Serve ==
    /\ st.pc = "run"
    /\ st' = [st EXCEPT !.serving = TRUE, !.pc = "serving"]
    /\ StartupUnchanged

StartupNext ==
    \/ LoadRequired
    \/ SetupLogging
    \/ CheckMissing
    \/ CreateGraph
    \/ Serve

\* The module-level code run under every environment of the required names.
SpecStartup == StartupInit /\ [][StartupNext]_vars

\* ------------------------------------------------------------ properties
\* The entities of a sequence of pages, page after page.
RECURSIVE Flatten(_)
Flatten(ps) == IF ps = <<>> THEN <<>> ELSE Head(ps).entities \o Flatten(Tail(ps))

\* Thread t runs, or has just ended, a get_paged_entities generator.
InPaged(t) == pg[t].page_counter > 0

\* C1 as stated: in every finished Graph.request call whose first response was
\* a 401, exactly one token acquisition was made and the request was sent
\* exactly one more time; no call sends more than 2 requests or makes more
\* than 1 acquisition in reaction to a 401.
C1_RetryAlwaysSent ==
    \A t \in Threads :
        /\ rq[t].sends <= 2 /\ rq[t].refreshes <= 1
        /\ (rq[t].phase \in {"returned", "raised"} /\ rq[t].first = 401)
              => (rq[t].refreshes = 1 /\ rq[t].sends = 2)

\* C1 as amended: a call sends at most 2 requests and makes at most 1 token
\* acquisition in reaction to a 401. After a first 401 exactly one acquisition
\* is made: if it succeeds the request is sent exactly once more and that
\* response, a 401 included, is returned; if it fails the call raises with no
\* retry. A first response other than 401 is the only send and no acquisition
\* follows it, so a 401 is returned only from the retry.
C1_BoundedRetry ==
    \A t \in Threads :
        LET c == rq[t] IN
        /\ c.sends <= 2 /\ c.refreshes <= 1
        /\ (c.phase = "returned" /\ c.first = 401)
              => (c.refreshes = 1 /\ c.sends = 2)
        /\ (c.phase = "raised" /\ c.first = 401)
              => (c.refreshes = 1 /\ c.sends = 1)
        /\ (c.sends >= 1 /\ c.first # 401) => (c.refreshes = 0 /\ c.sends = 1)
        /\ (c.phase = "returned" /\ c.resp.status = 401) => c.sends = 2

\* C1's case: a call whose retry was answered with a 401 too has returned it.
C1_Witness ==
    \E t \in Threads :
        /\ rq[t].phase = "returned"
        /\ rq[t].first = 401
        /\ rq[t].resp.status = 401
        /\ rq[t].sends = 2 /\ rq[t].refreshes = 1

\* C2: every request Graph.request sends, the retry after a 401 included,
\* carries the credential that is self.auth_header when it is sent.
C2_CurrentCredentialAttached ==
    \A t \in Threads : rq[t].sends > 0 => rq[t].sentHdr = rq[t].sentCur

\* C3: a get_paged_entities generator that has ended normally was served N >= 1
\* pages, of which the first N-1 carried a cursor and the last none; it made
\* exactly N page requests, yielded exactly the pages' entities in page order
\* and in server order within each page, and ended once. No page is requested
\* after a page with no cursor.
C3_PagesConcatenated ==
    \A t \in Threads :
        LET P == pg[t].pages
            N == Len(P)
        IN /\ \A k \in 1..(N - 1) : P[k].cursor # None
           /\ (InPaged(t) /\ pc[t] = "done" /\ outcome[t].kind = "returned")
                 => /\ N >= 1
                    /\ P[N].cursor = None
                    /\ pg[t].reqs = N
                    /\ pg[t].yielded = Flatten(P)
                    /\ pg[t].ended = 1

\* C3's case: a chain of two pages, the first with two entities, consumed to
\* its end.
C3_Witness ==
    \E t \in Threads :
        /\ pc[t] = "done" /\ outcome[t].kind = "returned"
        /\ Len(pg[t].pages) = 2
        /\ pg[t].yielded = <<<<1, 1>>, <<1, 2>>, <<2, 1>>, <<2, 2>>>>

\* C4: a request sent for a page after the first, addressed by a cursor url
\* of the server, never carries the caller's query arguments.
C4_ArgsOnlyOnFirstPage ==
    \A t \in Threads :
        (rq[t].ctx = "page" /\ rq[t].sends >= 1 /\ pg[t].reqs >= 2
           /\ pg[t].args # <<>>)
            => rq[t].params = None

\* C5: a page is processed only when its response is a success; a generator
\* ended by the AssertionError of a non-success page names that response's
\* status code and text, has yielded exactly the entities of the pages before
\* it and none of that page, and has not ended normally.
C5_FetchErrorEndsSequence ==
    \A t \in Threads :
        /\ pc[t] = "p125" => Ok(rq[t].resp)
        /\ (pc[t] = "done" /\ outcome[t].exc = "AssertionError")
              => /\ ~Ok(rq[t].resp)
                 /\ outcome[t].status = rq[t].resp.status
                 /\ outcome[t].text = rq[t].resp.text
                 /\ Len(pg[t].pages) = pg[t].reqs - 1
                 /\ pg[t].yielded = Flatten(pg[t].pages)
                 /\ \A i \in 1..Len(pg[t].yielded) : pg[t].yielded[i][1] < pg[t].reqs
                 /\ pg[t].pending = <<>>
                 /\ pg[t].ended = 0

\* C5's case: the second page is answered with a 404 after the two entities
\* of the first page were yielded.
C5_Witness ==
    \E t \in Threads :
        /\ pc[t] = "done" /\ outcome[t].exc = "AssertionError"
        /\ outcome[t].status = 404
        /\ pg[t].reqs = 2
        /\ pg[t].yielded = <<<<1, 1>>, <<1, 2>>>>

\* C6: when the site lookup succeeds and the drive lookup is answered with a
\* non-success, get_file attempts neither the file details lookup nor the
\* download and returns None rather than raising.
C6_DriveFailureGivesNone ==
    \A t \in Threads :
        (pc[t] = "done" /\ fl[t].failed = "drive")
            => /\ fl[t].lookups = <<"site", "drive">>
               /\ fl[t].dlSends = 0
               /\ fl[t].got = "returned"
               /\ fl[t].file_resp = None

\* C7: the download of get_file is one plain request: it carries no headers
\* of the Graph object, it is sent at most once per call and only after the
\* three lookups, which are calls of Graph.request, and the step that sends
\* it, whatever the answer, acquires no token and ends the call.
C7_DownloadOutsideExecutor ==
    /\ [](\A t \in Threads :
            /\ fl[t].dlSends <= 1
            /\ fl[t].dlHdr = None
            /\ fl[t].dlSends = 1 => fl[t].lookups = <<"site", "drive", "item">>
            /\ (rq[t].phase # "none" /\ fl[t].lookups # <<>>)
                  => rq[t].ctx = fl[t].lookups[Len(fl[t].lookups)])
    /\ [][\A t \in Threads :
            pc[t] = "f204"
               => /\ auth_header' = auth_header
                  /\ issued' = issued
                  /\ rq' = rq
                  /\ pc'[t] \in {"f204", "done"}]_vars

\* C7's case: the download was answered with a 401 and the call is over, the
\* Graph object holding a credential.
C7_Witness ==
    \E t \in Threads :
        /\ pc[t] = "done"
        /\ fl[t].dlSends = 1
        /\ fl[t].got = "returned" /\ fl[t].file_resp = None
        /\ auth_header # None
        /\ outcome[t].http = 500

\* The '/'-separated segments of a path, counted on its characters.
SegmentCount(path) == 1 + Cardinality({i \in 1..Len(path) : path[i] = "/"})

\* The part of site after sharepoint_url's host and ":/".
SiteSegments(site) == SubSeq(site, 3, Len(site))

\* The route has taken a path and gone through its checks.
RouteEntered(t) == fl[t].path # <<>> /\ (pc[t] = "done" \/ fl[t].lookups # <<>>)

\* C10 as stated: every request with a path of fewer than 3 segments is
\* answered with 400 and no lookup; a path of 3 or more segments is split
\* into its first two segments and the rest, in order.
C10_ShortPathIs400 ==
    \A t \in Threads :
        RouteEntered(t) =>
            IF SegmentCount(fl[t].path) < 3
            THEN outcome[t].http = 400 /\ fl[t].lookups = <<>>
            ELSE /\ SegmentCount(SiteSegments(fl[t].site)) = 2
                 /\ SiteSegments(fl[t].site) \o <<"/">> \o fl[t].relpath = fl[t].path

\* C10 as amended: when sharepoint_url is configured, a path of fewer than 3
\* segments is answered with 400 and no lookup is attempted, and a path of 3
\* or more segments is split so that the site is the host of sharepoint_url,
\* ":/" and the first two segments joined by '/', and the relative path the
\* remaining segments joined by '/', in order. With no sharepoint_url the
\* answer is 500 whatever the path, and no lookup is attempted.
C10_PathValidation ==
    \A t \in Threads :
        RouteEntered(t) =>
            IF sharepoint_url = None
            THEN outcome[t].http = 500 /\ fl[t].lookups = <<>>
            ELSE IF SegmentCount(fl[t].path) < 3
            THEN /\ pc[t] = "done"
                 /\ outcome[t].http = 400
                 /\ fl[t].lookups = <<>>
                 /\ rq[t].phase = "none"
            ELSE /\ fl[t].lookups # <<>>
                 /\ SubSeq(fl[t].site, 1, 2) = <<Netloc(sharepoint_url), ":/">>
                 /\ SegmentCount(SiteSegments(fl[t].site)) = 2
                 /\ SiteSegments(fl[t].site) \o <<"/">> \o fl[t].relpath = fl[t].path

\* C10's case: with sharepoint_url configured, the path "a/b" of two segments
\* is rejected with 400.
C10_Witness ==
    \E t \in Threads :
        /\ sharepoint_url # None
        /\ fl[t].path = <<"a", "/", "b">>
        /\ pc[t] = "done"
        /\ outcome[t].http = 400

\* The other case of C10: the path "a/b//" of four segments, split into the
\* site segments "a/b" and the relative path "/".
C10_SplitReached ==
    \E t \in Threads :
        /\ fl[t].path = <<"a", "/", "b", "/", "/">>
        /\ fl[t].relpath = <<"/">>
        /\ SiteSegments(fl[t].site) = <<"a", "/", "b">>

\* The chunks stream_json yields for the first k records of items, without
\* the closing bracket: '[', then each record's text with a ',' between two.
IsOpenArrayOf(out, items, k) ==
    /\ Len(out) = IF k = 0 THEN 1 ELSE 2 * k
    /\ out[1] = "["
    /\ \A i \in 1..k : out[2 * i] = Dumps(items[i])
    /\ \A i \in 1..(k - 1) : out[2 * i + 1] = ","

\* The number of ',' chunks of out.
Commas(out) == Cardinality({i \in 1..Len(out) : out[i] = ","})

\* C8: for an input of n records that raises no error, what stream_json has
\* yielded when it ends is '[', the text of each record in input order with a
\* ',' between each two, then ']': "[]" for n = 0, n - 1 commas for n >= 1,
\* none of them leading or trailing; and it yields nothing else on the way.
C8_StreamIsJsonArray ==
    LET n == Len(sj.items)
        out == sj.out
    IN /\ sj.pc = "done"
          => /\ IsOpenArrayOf(SubSeq(out, 1, Len(out) - 1), sj.items, n)
             /\ out[Len(out)] = "]"
             /\ Commas(out) = IF n = 0 THEN 0 ELSE n - 1
             /\ out[2] # "," /\ out[Len(out) - 1] # ","
       /\ (sj.failAt = -1 /\ sj.pc \in {"s219", "s225"})
          => IsOpenArrayOf(out, sj.items, sj.taken)

\* C8's case: three records streamed to the end.
C8_Witness ==
    /\ sj.pc = "done"
    /\ Len(sj.items) = 3
    /\ sj.items[1] # sj.items[2]
    /\ Len(sj.out) = 7

\* C9: when the input raises after k records, stream_json ends with the
\* input's error having yielded exactly '[' and the first k records with a
\* ',' between each two: no trailing ',' and no ']', then or later.
C9_ErrorTruncatesStream ==
    /\ sj.pc = "raised"
          => /\ sj.taken = sj.failAt
             /\ IsOpenArrayOf(sj.out, sj.items, sj.failAt)
             /\ sj.out[Len(sj.out)] # ","
    /\ (sj.failAt # -1 /\ sj.pc # "off")
          => /\ \A i \in 1..Len(sj.out) : sj.out[i] # "]"
             /\ sj.pc # "done"
             /\ sj.taken <= sj.failAt

\* C9's case: the input raised after two records of three.
C9_Witness ==
    /\ sj.pc = "raised"
    /\ sj.failAt = 2
    /\ Len(sj.items) = 3
    /\ Len(sj.out) = 4

\* The required names that are unset or empty in the environment.
MissingNames == {n \in RequiredNames : st.env[n] \in {None, <<>>}}

\* C11: a startup with a required setting unset or empty exits with a
\* non-zero status before data_access_layer or the server exists, its one
\* report listing every missing required name exactly once (and no other
\* name); with none missing the process does not exit there and nothing is
\* reported.
C11_MissingSettingsFatal ==
    /\ st.pc = "exited"
          => /\ st.exit # 0 /\ st.exit # -1
             /\ ~st.graph /\ ~st.serving
             /\ MissingNames # {}
             /\ {st.report[i] : i \in 1..Len(st.report)} = MissingNames
             /\ Len(st.report) = Cardinality(MissingNames)
    /\ st.pc \in {"define", "run", "serving"}
          => /\ MissingNames = {}
             /\ st.exit = -1
             /\ st.report = <<>>
    /\ (st.graph \/ st.serving) => MissingNames = {}
    /\ st.pc # "exited" => (st.exit = -1 /\ st.report = <<>>)

\* C11's case: client_secret is empty and token_url unset, and the process
\* has exited reporting the two.
C11_Witness ==
    /\ st.pc = "exited"
    /\ st.env["client_secret"] = <<>>
    /\ st.env["token_url"] = None
    /\ st.report = <<"client_secret", "token_url">>

\* C12 (as claimed): a get_token refused by the token endpoint fails with an
\* AuthenticationError that carries the response body.
C12_RefusalCarriesBody ==
    \A t \in Threads :
        outcome[t].tokenBody # ""
            => /\ outcome[t].kind = "raised"
               /\ outcome[t].exc = "AuthenticationError"
               /\ outcome[t].text = outcome[t].tokenBody

\* C13: a Graph.request call whose first response is not a 401 returns that
\* response, has sent the request exactly once, has asked for no token after
\* the request was built, and leaves the credential as it was when the
\* request was built.
C13_OtherStatusReturnedAsIs ==
    \A t \in Threads :
        (rq[t].phase = "returned" /\ rq[t].first # HTTP_UNAUTHORIZED)
            => /\ rq[t].sends = 1
               /\ rq[t].refreshes = 0
               /\ rq[t].resp.status = rq[t].first
               /\ auth_header = rq[t].hdr
               /\ rq[t].sentCur = rq[t].hdr

\* C13's case: a call came back with the 404 the server gave to its one send.
C13_Witness ==
    \E t \in Threads :
        /\ rq[t].phase = "returned"
        /\ rq[t].first = 404
        /\ rq[t].resp.status = 404
        /\ rq[t].sends = 1

\* C20 (as claimed): a request is sent only after some get_token succeeded,
\* so every request sent carries a Bearer credential, also in a call that
\* follows a call whose initial token acquisition failed.
C20_NeverSentWithoutCredential ==
    \A t \in Threads :
        rq[t].sends >= 1 => (issued >= 1 /\ rq[t].sentHdr # None)

\* The page request thread t has made last, once it is not the first one.
LaterPageRequest(t) ==
    /\ InPaged(t)
    /\ pg[t].reqs >= 2
    /\ rq[t].ctx = "page"
    /\ rq[t].phase # "none"

\* The pages of one call are requested one after the other: a page is
\* requested only after every entity of the pages before it was yielded,
\* and no page is requested after a page without a cursor.
PagesInSequence(t) ==
    /\ Len(pg[t].pages) \in {pg[t].reqs - 1, pg[t].reqs}
    /\ Len(pg[t].pages) = pg[t].reqs - 1
          => (pg[t].yielded = Flatten(pg[t].pages) /\ pg[t].pending = <<>>)
    /\ \A i \in 1..Len(pg[t].pages) :
          pg[t].pages[i].cursor = None
              => (i = Len(pg[t].pages) /\ pg[t].reqs = i)

\* The sequential part of C15, with the url handed to Graph.request in place
\* of the url requested: it is the cursor of the page before.
C15_SequentialPages ==
    \A t \in Threads :
        InPaged(t)
            => /\ PagesInSequence(t)
               /\ LaterPageRequest(t)
                     => rq[t].url = pg[t].pages[pg[t].reqs - 1].cursor

\* C15 (as claimed): page requests are sequential, every entity of page k is
\* yielded before page k+1 is requested, no page is requested after a page
\* without a cursor, and the url requested for page k+1 is exactly the cursor
\* of page k.
C15_CursorsFollowedVerbatim ==
    \A t \in Threads :
        InPaged(t)
            => /\ PagesInSequence(t)
               /\ LaterPageRequest(t)
                     => PreparedUrl(rq[t].url, rq[t].params)
                            = pg[t].pages[pg[t].reqs - 1].cursor

\* C16 (as claimed): whatever the server answers, a get_paged_entities
\* generator that is pulled continuously comes to its end.
C16_PagingTerminates ==
    \A t \in Threads : InPaged(t) ~> (pc[t] = "done")

\* C17 (as claimed): when the lookups and the download of a file request
\* succeed the route answers 200, whatever the content, the empty one
\* included; it answers 500 only when sharepoint_url is missing or a lookup
\* or the download failed.
C17_DownloadedFileIs200 ==
    \A t \in Threads :
        /\ (fl[t].got = "returned" /\ fl[t].file_resp # None)
              => outcome[t].http = 200
        /\ (outcome[t].kind = "returned" /\ outcome[t].http = 500 /\ fl[t].path # <<>>)
              => \/ sharepoint_url = None
                 \/ fl[t].failed # FlInit.failed
                 \/ fl[t].file_resp = None

\* C19 (as claimed): with config.sleep = d the generator suspends for d
\* milliseconds before every page request, the first included; with no
\* sleep configured it never suspends.
C19_SleepsConfiguredMillis ==
    \A t \in Threads :
        IF ~sleep.has
        THEN pg[t].slept = <<>>
        ELSE /\ Len(pg[t].slept) = pg[t].reqs
             /\ \A i \in 1..Len(pg[t].slept) : pg[t].slept[i] = sleep.d

\* The part of C19 about when the generator suspends: once before every
\* page request when sleep is configured, never otherwise.
C19_SleepsBeforeEveryPage ==
    \A t \in Threads :
        Len(pg[t].slept) = IF sleep.has THEN pg[t].reqs ELSE 0

\* C14 (as claimed): with handlers running concurrently, no handler sends a
\* request that carries no Bearer credential while another handler is in
\* the initial get_token of line 93.
C14_NoSendDuringInitialToken ==
    [][\A t \in Threads :
          (rq'[t].sends = rq[t].sends + 1 /\ rq'[t].sentHdr = None)
              => \A u \in Threads \ {t} : pc[u] # "r93"]_vars

\* The value of the first item of an entity whose key is an id key.
FirstIdValue(entity) ==
    LET i == CHOOSE i \in 1..Len(entity) :
                 /\ IdKey(entity[i][1])
                 /\ \A j \in 1..(i - 1) : ~IdKey(entity[j][1])
    IN entity[i][2]

\* C18 (as claimed): for an entity with at least one key that ends in "id"
\* after the split on ":", set_group_id returns the value of the first such
\* key in key order, also when several keys match.
C18_ReturnsFirstIdKey ==
    (gid.pc # "call" /\ gid.pc # "off"
        /\ \E i \in 1..Len(gid.entity) : IdKey(gid.entity[i][1]))
        => (gid.pc = "returned" /\ gid.result = FirstIdValue(gid.entity))

====
